---- MODULE Spec2Model ----
(***************************************************************************)
(* Log clustering and summarization pipeline (agent_helper.py,             *)
(* clustering.py, ui_app.py).                                              *)
(*                                                                         *)
(* Python and JSON values are tagged records [t, v]:                       *)
(*   "null", "num" (v an integer), "str" (v a sequence of one-character    *)
(*   strings), "arr" (v a sequence of values), "obj" (v a function from    *)
(*   key names to values).                                                 *)
(* A Python call either returns or raises: [exc |-> "none", val |-> x] or  *)
(* [exc |-> <exception class>, val |-> JNull].                             *)
(***************************************************************************)
EXTENDS Integers, Sequences, FiniteSets, TLC

VARIABLES
    env,                  \* os.environ["DISABLE_AI_ENHANCEMENT"], or "unset"
    pc,                   \* position of the summarize_clusters run
    origin,               \* "direct" | "run_analysis": who built cluster_data
    disable_ai,           \* run_analysis's disable_ai argument (ui_app.py:28)
    cluster_data,         \* argument of summarize_clusters (list of dicts)
    enabled,              \* value read from is_ai_enhancement_enabled() at line 139
    constructions,        \* LangchainOllamaLLMModel() constructions in this run
    calls,                \* prompts handed to the provider in this run, in order
    responses,            \* provider outcome of each per-cluster call, in order
    alerts_outcome,       \* provider outcome of the insight call, or NoCall
    summarized_clusters,  \* the loop's list (agent_helper.py:163)
    fail_stage,           \* where the outer except caught: "none","construct","loop","insight"
    result,               \* what summarize_clusters returned or raised
    sc_args,              \* arguments of the last direct summarize_cluster call
    sc_result,            \* its outcome
    g_args,               \* (logs, labels) of the last group_logs_by_cluster call
    g_out                 \* its outcome: clustered_logs and the exported list

vars == <<env, pc, origin, disable_ai, cluster_data, enabled, constructions, calls, responses,
          alerts_outcome, summarized_clusters, fail_stage, result,
          sc_args, sc_result, g_args, g_out>>

-----------------------------------------------------------------------------
(* Bounds of the model *)

MaxClusters == 2      \* longest cluster_data list handed directly to summarize_clusters
MaxLines == 2         \* most log lines in one run_analysis / grouping call
MaxLogs == 4          \* longest logs list handed directly to summarize_cluster

-----------------------------------------------------------------------------
(* Values *)

JNull == [t |-> "null", v |-> <<>>]
JNum(n) == [t |-> "num", v |-> n]
JStr(s) == [t |-> "str", v |-> s]
JArr(s) == [t |-> "arr", v |-> s]
JObj(f) == [t |-> "obj", v |-> f]
EmptyDict == [k \in {} |-> JNull]

Return(x) == [exc |-> "none", val |-> x]
Raise(e) == [exc |-> e, val |-> JNull]

Min(a, b) == IF a < b THEN a ELSE b

RECURSIVE Rep(_, _)
Rep(c, n) == IF n = 0 THEN <<>> ELSE <<c>> \o Rep(c, n - 1)

\* str(int)
Digit(d) == CASE d = 0 -> "0" [] d = 1 -> "1" [] d = 2 -> "2" [] d = 3 -> "3"
              [] d = 4 -> "4" [] d = 5 -> "5" [] d = 6 -> "6" [] d = 7 -> "7"
              [] d = 8 -> "8" [] d = 9 -> "9"

RECURSIVE NatStr(_)
NatStr(n) == IF n < 10 THEN <<Digit(n)>> ELSE NatStr(n \div 10) \o <<Digit(n % 10)>>

IntStr(n) == IF n < 0 THEN <<"-">> \o NatStr(0 - n) ELSE NatStr(n)

S_None == <<"N", "o", "n", "e">>

\* format(value) as an f-string replacement field does it
PyStr(x) == CASE x.t = "num" -> IntStr(x.v)
              [] x.t = "str" -> x.v
              [] OTHER -> S_None

\* truth value of a Python object (the operand of `not`)
Truthy(x) == CASE x.t = "null" -> FALSE
               [] x.t = "num" -> x.v # 0
               [] x.t = "str" -> Len(x.v) > 0
               [] x.t = "arr" -> Len(x.v) > 0
               [] x.t = "obj" -> DOMAIN x.v # {}

\* dict.get(key, default)
DictGet(d, key, default) == IF key \in DOMAIN d.v THEN d.v[key] ELSE default

\* str.strip(): leading and trailing whitespace removed
Whitespace == {" ", "\t", "\n"}

RECURSIVE LStrip(_)
LStrip(s) == IF s # <<>> /\ Head(s) \in Whitespace THEN LStrip(Tail(s)) ELSE s

RECURSIVE RStrip(_)
RStrip(s) == IF s # <<>> /\ s[Len(s)] \in Whitespace
             THEN RStrip(SubSeq(s, 1, Len(s) - 1)) ELSE s

Strip(s) == RStrip(LStrip(s))

-----------------------------------------------------------------------------
(* Text constants of agent_helper.py *)

S_Cluster == <<"C", "l", "u", "s", "t", "e", "r", " ">>
S_contains == <<" ", "c", "o", "n", "t", "a", "i", "n", "s", " ">>
S_varied == <<" ", "l", "o", "g", "s", " ", "w", "i", "t", "h", " ", "v", "a", "r", "i", "e", "d", " ", "c", "o", "n", "t", "e", "n", "t", ".">>
S_summary == <<" ", "s", "u", "m", "m", "a", "r", "y">>
S_General == <<"G", "e", "n", "e", "r", "a", "l", " ", "c", "l", "u", "s", "t", "e", "r", " ", "p", "a", "t", "t", "e", "r", "n">>
S_Review == <<"R", "e", "v", "i", "e", "w", " ", "l", "o", "g", "s", " ", "f", "o", "r", " ", "f", "u", "r", "t", "h", "e", "r", " ", "i", "n", "v", "e", "s", "t", "i", "g", "a", "t", "i", "o", "n", ".">>
S_NoAlerts == <<"N", "o", " ", "a", "l", "e", "r", "t", "s", " ", "i", "d", "e", "n", "t", "i", "f", "i", "e", "d">>

S_Unnamed == <<"U", "n", "n", "a", "m", "e", "d", " ", "C", "l", "u", "s", "t", "e", "r">>

MinSummaryLen == 20   \* agent_helper.py:101
SampleLimit == 3      \* agent_helper.py:71 and :188

\* f"Cluster {cluster_id}"
ClusterTitle(cluster_id) == JStr(S_Cluster \o PyStr(cluster_id))

\* f"Cluster {cluster_id} contains {count} logs with varied content."
FallbackSummary(cluster_id, count) ==
    JStr(S_Cluster \o PyStr(cluster_id) \o S_contains \o PyStr(count) \o S_varied)

DefaultProblem == JStr(S_General)
DefaultSolution == JStr(S_Review)
NoAlerts == JStr(S_NoAlerts)

-----------------------------------------------------------------------------
(* The Language Model Provider: model(prompt) raises, or returns text that *)
(* json.loads either rejects or decodes to a value.                        *)

ProviderError == [t |-> "raise", v |-> JNull]
Garbage == [t |-> "text", v |-> [t |-> "notjson", v |-> <<>>]]
Text(j) == [t |-> "text", v |-> j]
NoCall == [t |-> "nocall", v |-> JNull]

\* json.loads(response.strip())
json_loads(response) ==
    IF response.v.t = "notjson" THEN Raise("JSONDecodeError") ELSE Return(response.v)

-----------------------------------------------------------------------------
(* summarize_cluster (agent_helper.py:59-126) *)

\* logs[:3]
log_examples(logs) == SubSeq(logs.v, 1, Min(SampleLimit, Len(logs.v)))

\* lines 71-89, outside the try: slicing, "\n".join and len(logs)
prompt_error(logs) ==
    IF logs.t # "arr" THEN "TypeError"
    ELSE IF \E i \in 1..Len(log_examples(logs)) : log_examples(logs)[i].t # "str"
         THEN "TypeError"
         ELSE "none"

cluster_prompt(cluster_id, logs) ==
    [kind |-> "cluster", cluster_id |-> cluster_id,
     log_count |-> Len(logs.v), samples |-> log_examples(logs)]

fallback_record(cluster_id, logs) ==
    [cluster |-> ClusterTitle(cluster_id),
     summary |-> FallbackSummary(cluster_id, JNum(Len(logs.v))),
     problem |-> DefaultProblem,
     solution |-> DefaultSolution,
     ai_summarized |-> FALSE]

\* line 101 with the bare length test len(parsed["summary"]) < 20
summary_check_no_strip(parsed) ==
    LET s == DictGet(parsed, "summary", JNull) IN
    IF ~Truthy(s) THEN "reject"
    ELSE IF s.t # "str" THEN "AttributeError"
    ELSE IF Len(s.v) < MinSummaryLen THEN "reject"
    ELSE "accept"

\* line 101: not parsed.get("summary") or len(parsed["summary"].strip()) < 20
\* "reject" | "accept" | "AttributeError" (a summary that is no string has no strip)
summary_check(parsed) ==
    LET s == DictGet(parsed, "summary", JNull) IN
    IF ~Truthy(s) THEN "reject"
    ELSE IF s.t # "str" THEN "AttributeError"
    ELSE IF Len(Strip(s.v)) < MinSummaryLen THEN "reject"
    ELSE "accept"

\* lines 111-117 with the solution default pasted into `problem`
accepted_record_pasted_default(cluster_id, parsed) ==
    [cluster |-> DictGet(parsed, "cluster", ClusterTitle(cluster_id)),
     summary |-> DictGet(parsed, "summary", JStr(S_Cluster \o PyStr(cluster_id) \o S_summary)),
     problem |-> DictGet(parsed, "problem", DefaultSolution),
     solution |-> DictGet(parsed, "solution", DefaultSolution),
     ai_summarized |-> TRUE]

\* lines 111-117
accepted_record(cluster_id, parsed) ==
    [cluster |-> DictGet(parsed, "cluster", ClusterTitle(cluster_id)),
     summary |-> DictGet(parsed, "summary", JStr(S_Cluster \o PyStr(cluster_id) \o S_summary)),
     problem |-> DictGet(parsed, "problem", DefaultProblem),
     solution |-> DictGet(parsed, "solution", DefaultSolution),
     ai_summarized |-> TRUE]

\* lines 91-126 with `except json.JSONDecodeError` alone
summarize_try_narrow_except(cluster_id, logs, outcome) ==
    IF outcome.t = "raise" THEN Raise("Exception")
    ELSE LET p == json_loads(outcome) IN
         IF p.exc # "none" THEN Return(fallback_record(cluster_id, logs))
         ELSE IF p.val.t # "obj" THEN Raise("AttributeError")
         ELSE IF summary_check(p.val) = "accept"
              THEN Return(accepted_record(cluster_id, p.val))
              ELSE IF summary_check(p.val) = "reject"
                   THEN Return(fallback_record(cluster_id, logs))
                   ELSE Raise("AttributeError")

\* lines 91-126: the try block and its `except (json.JSONDecodeError, Exception)`:
\* the provider's exception, the decode error and the AttributeError of a
\* parsed value without .get or a summary without .strip all end in the fallback
summarize_try(cluster_id, logs, outcome) ==
    IF outcome.t = "raise" THEN Return(fallback_record(cluster_id, logs))
    ELSE LET p == json_loads(outcome) IN
         IF p.exc # "none" THEN Return(fallback_record(cluster_id, logs))
         ELSE IF p.val.t # "obj" THEN Return(fallback_record(cluster_id, logs))
         ELSE IF summary_check(p.val) = "accept"
              THEN Return(accepted_record(cluster_id, p.val))
              ELSE Return(fallback_record(cluster_id, logs))

\* lines 59-126
summarize_cluster(cluster_id, logs, outcome) ==
    IF prompt_error(logs) # "none" THEN Raise(prompt_error(logs))
    ELSE summarize_try(cluster_id, logs, outcome)

-----------------------------------------------------------------------------
(* is_ai_enhancement_enabled (agent_helper.py:15-22) *)

\* os.getenv(name, default)
getenv(value, default) == IF value = "unset" THEN default ELSE value

\* str.lower() on the values the variable takes here
Lower(value) == IF value = "TRUE" THEN "true" ELSE value

\* line 22 without .lower()
is_ai_enhancement_enabled_no_lower(value) == getenv(value, "false") # "true"

is_ai_enhancement_enabled(value) == Lower(getenv(value, "false")) # "true"

-----------------------------------------------------------------------------
(* summarize_clusters (agent_helper.py:129-249) *)

EntryKeys == {"cluster_id", "log_count", "logs"}

\* one element of the comprehension at lines 144-153 (and again 234-243)
basic_record(cluster) ==
    [cluster_id |-> cluster.v["cluster_id"],
     log_count |-> cluster.v["log_count"],
     cluster |-> ClusterTitle(cluster.v["cluster_id"]),
     summary |-> FallbackSummary(cluster.v["cluster_id"], cluster.v["log_count"]),
     problem |-> DefaultProblem,
     solution |-> DefaultSolution,
     original_logs |-> cluster.v["logs"],
     ai_summarized |-> FALSE]

\* cluster["cluster_id"], cluster["log_count"], cluster["logs"]: KeyError if missing
basic_clusters(data) ==
    IF \E i \in 1..Len(data) : ~(EntryKeys \subseteq DOMAIN data[i].v)
    THEN Raise("KeyError")
    ELSE Return([i \in 1..Len(data) |-> basic_record(data[i])])

\* lines 139-158: the result when AI enhancement is disabled (no try around it)
disabled_result(data) ==
    IF basic_clusters(data).exc # "none" THEN Raise(basic_clusters(data).exc)
    ELSE Return([alerts |-> NoAlerts,
                 clusters |-> basic_clusters(data).val,
                 ai_enhancement_used |-> FALSE])

\* lines 229-249: the outer except; its own comprehension may raise again
failure_result(data, error) ==
    IF basic_clusters(data).exc # "none" THEN Raise(basic_clusters(data).exc)
    ELSE Return([alerts |-> NoAlerts,
                 clusters |-> basic_clusters(data).val,
                 ai_enhancement_used |-> FALSE,
                 ai_error |-> error])

\* lines 167-169: the loop's reads; len(logs) is evaluated even when
\* log_count is present
loop_logs(cluster) == DictGet(cluster, "logs", JArr(<<>>))
loop_cluster_id(cluster) == DictGet(cluster, "cluster_id", JNum(-1))
loop_error(cluster) ==
    IF loop_logs(cluster).t # "arr" THEN "TypeError"
    ELSE prompt_error(loop_logs(cluster))
loop_log_count(cluster) ==
    DictGet(cluster, "log_count", JNum(Len(loop_logs(cluster).v)))

\* lines 172-183: the record appended for one cluster
loop_record(cluster, outcome) ==
    LET summary_data ==
            summarize_cluster(loop_cluster_id(cluster), loop_logs(cluster), outcome).val
    IN [cluster_id |-> loop_cluster_id(cluster),
        log_count |-> loop_log_count(cluster),
        cluster |-> summary_data.cluster,
        summary |-> summary_data.summary,
        problem |-> summary_data.problem,
        solution |-> summary_data.solution,
        original_logs |-> loop_logs(cluster),
        ai_summarized |-> summary_data.ai_summarized]

\* lines 186-190, outside the inner try: cluster['cluster_id'],
\* cluster["logs"][:3] and the join
alerts_prompt_error(data) ==
    IF \E i \in 1..Len(data) : ~({"cluster_id", "logs"} \subseteq DOMAIN data[i].v)
    THEN "KeyError"
    ELSE IF \E i \in 1..Len(data) : prompt_error(data[i].v["logs"]) # "none"
         THEN "TypeError"
         ELSE "none"

alerts_prompt(data) ==
    [kind |-> "alerts",
     clusters |-> [i \in 1..Len(data) |->
                     [cluster_id |-> data[i].v["cluster_id"],
                      title |-> DictGet(data[i], "cluster", JStr(S_Unnamed)),
                      samples |-> log_examples(data[i].v["logs"])]]]

AlertKeys == {"log", "explanation", "suggestions"}

\* lines 210-213 with the keys spelled log, explanation, suggestion
valid_alerts_singular(parsed) ==
    /\ parsed.t = "arr"
    /\ Len(parsed.v) > 0
    /\ \A i \in 1..Len(parsed.v) :
          parsed.v[i].t = "obj"
          /\ {"log", "explanation", "suggestion"} \subseteq DOMAIN parsed.v[i].v

\* lines 210-213
valid_alerts(parsed) ==
    /\ parsed.t = "arr"
    /\ Len(parsed.v) > 0
    /\ \A i \in 1..Len(parsed.v) :
          parsed.v[i].t = "obj" /\ AlertKeys \subseteq DOMAIN parsed.v[i].v

\* lines 206-218: the inner try around the insight call
extract_alerts(outcome) ==
    IF outcome.t = "raise" THEN NoAlerts
    ELSE IF json_loads(outcome).exc # "none" THEN NoAlerts
    ELSE IF valid_alerts(json_loads(outcome).val) THEN json_loads(outcome).val
    ELSE NoAlerts

DEFAULT_MODEL == JStr(<<"l", "l", "a", "m", "a", "3", ".", "2">>)

\* lines 220-227 with the flag computed from the records: set only when some
\* cluster was summarized by the provider
success_result_any_ai(alerts, clusters) ==
    [alerts |-> alerts,
     clusters |-> clusters,
     ai_enhancement_used |-> \E k \in 1..Len(clusters) : clusters[k].ai_summarized,
     ollama_model_used |-> DEFAULT_MODEL]

\* lines 220-227
success_result(alerts, clusters) ==
    [alerts |-> alerts,
     clusters |-> clusters,
     ai_enhancement_used |-> TRUE,
     ollama_model_used |-> DEFAULT_MODEL]

-----------------------------------------------------------------------------
(* group_logs_by_cluster (clustering.py:51-55) and the sorted export         *)
(* (clustering.py:57-64, ui_app.py:69-76)                                   *)

\* the loop over zip(logs, labels): pairs stop at the shorter sequence;
\* clustered_logs[label].append(log), here with the position of the log
RECURSIVE group_indices_from(_, _, _, _)
group_indices_from(n_logs, labels, i, acc) ==
    IF i > Min(n_logs, Len(labels)) THEN acc
    ELSE LET label == labels[i]
             old == IF label \in DOMAIN acc THEN acc[label] ELSE <<>>
         IN group_indices_from(n_logs, labels, i + 1,
                [l \in DOMAIN acc \cup {label} |->
                    IF l = label THEN Append(old, i) ELSE acc[l]])

group_indices(n_logs, labels) ==
    group_indices_from(n_logs, labels, 1, [l \in {} |-> <<>>])

\* the same loop with noise lines skipped
group_logs_by_cluster_drops_noise(logs, labels) ==
    LET idx == group_indices(Len(logs), labels) IN
    [l \in DOMAIN idx \ {-1} |-> [k \in 1..Len(idx[l]) |-> logs[idx[l][k]]]]

group_logs_by_cluster(logs, labels) ==
    LET idx == group_indices(Len(logs), labels) IN
    [l \in DOMAIN idx |-> [k \in 1..Len(idx[l]) |-> logs[idx[l][k]]]]

\* sorted(clustered_logs.items()): the keys in ascending order
RECURSIVE SortedKeys(_)
SortedKeys(S) ==
    IF S = {} THEN <<>>
    ELSE LET m == CHOOSE x \in S : \A y \in S : x <= y
         IN <<m>> \o SortedKeys(S \ {m})

\* the keys in descending order
RECURSIVE ReverseSortedKeys(_)
ReverseSortedKeys(S) ==
    IF S = {} THEN <<>>
    ELSE LET m == CHOOSE x \in S : \A y \in S : y <= x
         IN <<m>> \o ReverseSortedKeys(S \ {m})

cluster_record(cid, logs) ==
    JObj([cluster_id |-> JNum(cid), log_count |-> JNum(Len(logs)), logs |-> JArr(logs)])

\* clustering.py:57-64: export_data
export_clusters_to_json(clustered_logs) ==
    LET keys == SortedKeys(DOMAIN clustered_logs) IN
    [k \in 1..Len(keys) |-> cluster_record(keys[k], clustered_logs[keys[k]])]

\* ui_app.py:69-76 with the sort reversed
prepare_cluster_data_reversed(clustered_logs) ==
    LET keys == ReverseSortedKeys(DOMAIN clustered_logs) IN
    [k \in 1..Len(keys) |-> cluster_record(keys[k], clustered_logs[keys[k]])]

\* ui_app.py:69-76: cluster_data
prepare_cluster_data(clustered_logs) ==
    LET keys == SortedKeys(DOMAIN clustered_logs) IN
    [k \in 1..Len(keys) |-> cluster_record(keys[k], clustered_logs[keys[k]])]

-----------------------------------------------------------------------------
(* Inputs *)

L_a == JStr(<<"a">>)
L_b == JStr(<<"b">>)

X20 == Rep("x", MinSummaryLen)
X19 == Rep("x", MinSummaryLen - 1)
S_ok == <<"o", "k">>
S_title == <<"A", "u", "t", "h", " ", "E", "r", "r", "o", "r", "s">>
S_problem == <<"B", "a", "d", " ", "p", "a", "s", "s", "w", "o", "r", "d">>
S_solution == <<"R", "e", "s", "e", "t", " ", "i", "t">>

Absent == [t |-> "absent", v |-> <<>>]

\* values the provider may put under `summary` (Absent: the key is missing)
SummaryChoices ==
    { Absent, JNull, JNum(0), JNum(5), JArr(Rep(L_a, MinSummaryLen)),
      JStr(<<>>), JStr(S_ok), JStr(Rep(" ", MinSummaryLen + 1)),
      JStr(X19), JStr(X20), JStr(X20 \o <<"x">>),
      JStr(<<" ">> \o X19 \o <<"\n">>), JStr(<<"\t", " ">> \o X20 \o <<" ">>) }

OtherKeys == {"cluster", "problem", "solution"}

OtherValue(k, c) == CASE k = "cluster" -> c
                      [] k = "problem" -> JStr(S_problem)
                      [] k = "solution" -> JStr(S_solution)

MkObj(s, K, c) ==
    JObj([k \in K \cup (IF s = Absent THEN {} ELSE {"summary"}) |->
            IF k = "summary" THEN s ELSE OtherValue(k, c)])

ResponseObjects ==
    { MkObj(s, K, c) : s \in SummaryChoices, K \in SUBSET OtherKeys,
                       c \in {JStr(S_title), JNull} }

\* what one model(prompt) call for a cluster can do
ClusterOutcomes ==
    { ProviderError, Garbage, Text(JNull), Text(JNum(7)), Text(JStr(X20)),
      Text(JArr(<<>>)) } \cup { Text(o) : o \in ResponseObjects }

RECURSIVE SeqsUpTo(_, _)
SeqsUpTo(S, n) ==
    IF n = 0 THEN { <<>> }
    ELSE LET shorter == SeqsUpTo(S, n - 1) IN
         shorter \cup { Append(q, x) : q \in { r \in shorter : Len(r) = n - 1 }, x \in S }

\* logs arguments of summarize_cluster: lists of lines, lists holding an entry
\* that is no string, and None
LogsArgs == { JArr(q) : q \in SeqsUpTo({L_a, JNull}, MaxLogs) } \cup { JNull }

ClusterIds == { JNum(-1), JNum(0), JNum(12) }

\* logs: List[str], the declared type of the parameter
IsLineList(logs) == logs.t = "arr" /\ \A i \in 1..Len(logs.v) : logs.v[i].t = "str"

\* entries of cluster_data as a caller may hand them in: the exported
\* shape, a log_count that differs from len(logs), and entries with a key
\* missing, a line that is no string, or logs that is null
E_ok == JObj([cluster_id |-> JNum(0), log_count |-> JNum(1), logs |-> JArr(<<L_a>>)])
E_noise == JObj([cluster_id |-> JNum(-1), log_count |-> JNum(5), logs |-> JArr(<<L_a, L_b>>)])
E_nocount == JObj([cluster_id |-> JNum(4), logs |-> JArr(<<L_a, L_b>>)])
E_nologs == JObj([cluster_id |-> JNum(2), log_count |-> JNum(0)])
E_noid == JObj([log_count |-> JNum(1), logs |-> JArr(<<L_b>>)])
E_badline == JObj([cluster_id |-> JNum(3), log_count |-> JNum(1), logs |-> JArr(<<JNull>>)])
E_nulllogs == JObj([cluster_id |-> JNum(7), log_count |-> JNum(0), logs |-> JNull])

ClusterEntries == {E_ok, E_noise, E_nocount, E_nologs, E_noid, E_badline, E_nulllogs}

ShortSummary == Text(JObj([summary |-> JStr(S_ok)]))
GoodSummary == Text(MkObj(JStr(X20), OtherKeys, JStr(S_title)))
PartialSummary == Text(MkObj(JStr(<<" ">> \o X20), {"cluster"}, JNull))

\* what one per-cluster model(prompt) call can do inside a run
RunOutcomes == {ProviderError, ShortSummary, GoodSummary, PartialSummary}

Alert(keys) == JObj([k \in keys |-> JStr(<<"z">>)])
GoodAlert == Alert({"log", "explanation", "suggestions"})
SingularAlert == Alert({"log", "explanation", "suggestion"})
BothAlert == Alert({"log", "explanation", "suggestion", "suggestions", "extra"})
PartAlert == Alert({"log", "explanation"})

\* what the insight model(alerts_prompt) call can do
AlertOutcomes ==
    { ProviderError, Garbage, Text(GoodAlert), Text(JArr(<<>>)),
      Text(JArr(<<GoodAlert>>)), Text(JArr(<<SingularAlert>>)),
      Text(JArr(<<BothAlert, BothAlert>>)), Text(JArr(<<GoodAlert, PartAlert>>)),
      Text(JArr(<<GoodAlert, JStr(<<"z">>)>>)) }

Labels == {-1, 0, 1}
LineSeqs == SeqsUpTo({L_a, L_b}, MaxLines)
LabelSeqs == SeqsUpTo(Labels, MaxLines + 1)

NoArgs == [cluster_id |-> JNull, logs |-> JNull, outcome |-> NoCall, prompts |-> <<>>]
NotCalled == [exc |-> "notcalled", val |-> JNull]
NoGroup == [logs |-> <<>>, labels |-> <<>>]
NoGroupOut == [exc |-> "notcalled", clustered |-> EmptyDict, indices |-> EmptyDict,
               export |-> <<>>]

EnvValues == {"unset", "true", "TRUE", "false"}

Init ==
    /\ env \in EnvValues
    /\ pc = "idle"
    /\ origin = "none"
    /\ disable_ai = FALSE
    /\ cluster_data = <<>>
    /\ enabled = FALSE
    /\ constructions = 0
    /\ calls = <<>>
    /\ responses = <<>>
    /\ alerts_outcome = NoCall
    /\ summarized_clusters = <<>>
    /\ fail_stage = "none"
    /\ result = NotCalled
    /\ sc_args = NoArgs
    /\ sc_result = NotCalled
    /\ g_args = NoGroup
    /\ g_out = NoGroupOut

runVars == <<env, pc, origin, disable_ai, cluster_data, enabled, constructions, calls, responses,
             alerts_outcome, summarized_clusters, fail_stage, result>>

-----------------------------------------------------------------------------
(* summarize_cluster called directly, with any arguments and any provider *)

\* the prompts summarize_cluster hands to the model (line 95): one, once the
\* prompt of lines 71-89 is built
summarize_cluster_calls(cluster_id, logs) ==
    IF prompt_error(logs) # "none" THEN <<>> ELSE <<cluster_prompt(cluster_id, logs)>>

CallSummarizeCluster ==
    /\ pc = "idle" /\ sc_result = NotCalled
    /\ \E cluster_id \in ClusterIds, logs \in LogsArgs, outcome \in ClusterOutcomes :
        /\ sc_args' = [cluster_id |-> cluster_id, logs |-> logs, outcome |-> outcome,
                       prompts |-> summarize_cluster_calls(cluster_id, logs)]
        /\ sc_result' = summarize_cluster(cluster_id, logs, outcome)
        /\ UNCHANGED <<runVars, g_args, g_out>>

NextCluster == CallSummarizeCluster

SpecCluster == Init /\ [][NextCluster]_vars

-----------------------------------------------------------------------------
(* group_logs_by_cluster and the export called directly, with any arguments *)

CallGroup ==
    /\ pc = "idle" /\ g_out = NoGroupOut
    /\ \E logs \in LineSeqs, labels \in LabelSeqs :
        /\ g_args' = [logs |-> logs, labels |-> labels]
        /\ g_out' = [exc |-> "none",
                     clustered |-> group_logs_by_cluster(logs, labels),
                     indices |-> group_indices(Len(logs), labels),
                     export |-> export_clusters_to_json(group_logs_by_cluster(logs, labels))]
        /\ UNCHANGED <<runVars, sc_args, sc_result>>

NextGroup == CallGroup

SpecGroup == Init /\ [][NextGroup]_vars

-----------------------------------------------------------------------------
(* Runs of summarize_clusters *)

NoRunYet == sc_result = NotCalled /\ g_out = NoGroupOut

\* a caller hands any list of entries to summarize_clusters
CallDirect ==
    /\ pc = "idle" /\ NoRunYet
    /\ \E data \in SeqsUpTo(ClusterEntries, MaxClusters) :
        /\ cluster_data' = data
        /\ origin' = "direct"
        /\ disable_ai' = FALSE
        /\ pc' = "entered"
        /\ UNCHANGED <<env, enabled, constructions, calls, responses, alerts_outcome,
                       summarized_clusters, fail_stage, result,
                       sc_args, sc_result, g_args, g_out>>

\* run_analysis (ui_app.py:28-79): sets the switch, clusters the lines (one
\* label per line from the clustering kernel), sorts, calls summarize_clusters
RunAnalysis ==
    /\ pc = "idle" /\ NoRunYet
    /\ \E flag \in BOOLEAN, logs \in LineSeqs \ {<<>>} :
       \E labels \in [1..Len(logs) -> Labels] :
        /\ env' = IF flag THEN "true" ELSE "false"
        /\ g_args' = [logs |-> logs, labels |-> labels]
        /\ g_out' = [exc |-> "none",
                     clustered |-> group_logs_by_cluster(logs, labels),
                     indices |-> group_indices(Len(logs), labels),
                     export |-> export_clusters_to_json(group_logs_by_cluster(logs, labels))]
        /\ cluster_data' = prepare_cluster_data(group_logs_by_cluster(logs, labels))
        /\ origin' = "run_analysis"
        /\ disable_ai' = flag
        /\ pc' = "entered"
        /\ UNCHANGED <<enabled, constructions, calls, responses, alerts_outcome,
                       summarized_clusters, fail_stage, result, sc_args, sc_result>>

\* another run_analysis (ui_app.py:32-35) or the CLI (analyze_logs.py:264)
\* writes the process-wide switch
SetEnv ==
    /\ pc \in {"entered", "construct", "loop"}
    /\ \E value \in {"true", "false"} :
        /\ env # value
        /\ env' = value
    /\ UNCHANGED <<pc, origin, disable_ai, cluster_data, enabled, constructions, calls, responses,
                   alerts_outcome, summarized_clusters, fail_stage, result,
                   sc_args, sc_result, g_args, g_out>>

\* line 139, switch off: lines 140-158
EnterDisabled ==
    /\ pc = "entered"
    /\ ~is_ai_enhancement_enabled(env)
    /\ enabled' = FALSE
    /\ result' = disabled_result(cluster_data)
    /\ pc' = "done"
    /\ UNCHANGED <<env, origin, disable_ai, cluster_data, constructions, calls, responses,
                   alerts_outcome, summarized_clusters, fail_stage,
                   sc_args, sc_result, g_args, g_out>>

\* line 139, switch on: into the try at line 160
EnterEnabled ==
    /\ pc = "entered"
    /\ is_ai_enhancement_enabled(env)
    /\ enabled' = TRUE
    /\ pc' = "construct"
    /\ UNCHANGED <<env, origin, disable_ai, cluster_data, constructions, calls, responses,
                   alerts_outcome, summarized_clusters, fail_stage, result,
                   sc_args, sc_result, g_args, g_out>>

\* line 162: LangchainOllamaLLMModel() is constructed
ConstructModel ==
    /\ pc = "construct"
    /\ constructions' = constructions + 1
    /\ pc' = "loop"
    /\ UNCHANGED <<env, origin, disable_ai, cluster_data, enabled, calls, responses, alerts_outcome,
                   summarized_clusters, fail_stage, result,
                   sc_args, sc_result, g_args, g_out>>

\* line 162 placed before the try of line 160: the constructor's error leaves
\* summarize_clusters
ConstructModelFails_propagates ==
    /\ pc = "construct"
    /\ constructions' = constructions + 1
    /\ fail_stage' = "construct"
    /\ result' = Raise("Exception")
    /\ pc' = "done"
    /\ UNCHANGED <<env, origin, disable_ai, cluster_data, enabled, calls, responses,
                   alerts_outcome, summarized_clusters, sc_args, sc_result, g_args, g_out>>

\* line 162: the constructor raises (lines 37-39), inside the try of line 160,
\* so the except of line 229 takes it
ConstructModelFails ==
    /\ pc = "construct"
    /\ constructions' = constructions + 1
    /\ fail_stage' = "construct"
    /\ result' = failure_result(cluster_data, "Exception")
    /\ pc' = "done"
    /\ UNCHANGED <<env, origin, disable_ai, cluster_data, enabled, calls, responses, alerts_outcome,
                   summarized_clusters, sc_args, sc_result, g_args, g_out>>

NextIndex == Len(summarized_clusters) + 1

\* one iteration that reads the switch again and, when it is now off, skips
\* the provider and appends the fallback record
SummarizeNext_rereads ==
    /\ pc = "loop"
    /\ NextIndex <= Len(cluster_data)
    /\ loop_error(cluster_data[NextIndex]) = "none"
    /\ IF is_ai_enhancement_enabled(env)
       THEN \E outcome \in RunOutcomes :
               /\ calls' = Append(calls,
                                  cluster_prompt(loop_cluster_id(cluster_data[NextIndex]),
                                                 loop_logs(cluster_data[NextIndex])))
               /\ responses' = Append(responses, outcome)
               /\ summarized_clusters' =
                     Append(summarized_clusters,
                            loop_record(cluster_data[NextIndex], outcome))
       ELSE /\ summarized_clusters' =
                  Append(summarized_clusters,
                         loop_record(cluster_data[NextIndex], ProviderError))
            /\ UNCHANGED <<calls, responses>>
    /\ UNCHANGED <<env, pc, origin, disable_ai, cluster_data, enabled, constructions,
                   alerts_outcome, fail_stage, result, sc_args, sc_result, g_args, g_out>>

\* one iteration that also stores the title in the caller's entry
\* (cluster["cluster"] = summary_data["cluster"])
SummarizeNext_writes_title ==
    /\ pc = "loop"
    /\ NextIndex <= Len(cluster_data)
    /\ loop_error(cluster_data[NextIndex]) = "none"
    /\ \E outcome \in RunOutcomes :
        /\ calls' = Append(calls, cluster_prompt(loop_cluster_id(cluster_data[NextIndex]),
                                                 loop_logs(cluster_data[NextIndex])))
        /\ responses' = Append(responses, outcome)
        /\ summarized_clusters' =
              Append(summarized_clusters, loop_record(cluster_data[NextIndex], outcome))
        /\ cluster_data' =
              [cluster_data EXCEPT ![NextIndex] =
                 JObj([key \in DOMAIN cluster_data[NextIndex].v \cup {"cluster"} |->
                         IF key = "cluster"
                         THEN loop_record(cluster_data[NextIndex], outcome).cluster
                         ELSE cluster_data[NextIndex].v[key]])]
    /\ UNCHANGED <<env, pc, origin, disable_ai, enabled, constructions, alerts_outcome,
                   fail_stage, result, sc_args, sc_result, g_args, g_out>>

\* lines 166-183, one iteration: the provider is called and a record appended
SummarizeNext ==
    /\ pc = "loop"
    /\ NextIndex <= Len(cluster_data)
    /\ loop_error(cluster_data[NextIndex]) = "none"
    /\ \E outcome \in RunOutcomes :
        /\ calls' = Append(calls, cluster_prompt(loop_cluster_id(cluster_data[NextIndex]),
                                                 loop_logs(cluster_data[NextIndex])))
        /\ responses' = Append(responses, outcome)
        /\ summarized_clusters' =
              Append(summarized_clusters, loop_record(cluster_data[NextIndex], outcome))
    /\ UNCHANGED <<env, pc, origin, disable_ai, cluster_data, enabled, constructions, alerts_outcome,
                   fail_stage, result, sc_args, sc_result, g_args, g_out>>

\* lines 166-172, one iteration that raises before the provider is called
\* (len(logs) at line 169, or lines 71-72 of summarize_cluster): the except
\* of line 229 takes it
SummarizeNextRaises ==
    /\ pc = "loop"
    /\ NextIndex <= Len(cluster_data)
    /\ loop_error(cluster_data[NextIndex]) # "none"
    /\ fail_stage' = "loop"
    /\ result' = failure_result(cluster_data, loop_error(cluster_data[NextIndex]))
    /\ pc' = "done"
    /\ UNCHANGED <<env, origin, disable_ai, cluster_data, enabled, constructions, calls, responses,
                   alerts_outcome, summarized_clusters, sc_args, sc_result, g_args, g_out>>

\* the insight request sent with no regard to the loop's progress
Insight_early ==
    /\ pc = "loop"
    /\ alerts_prompt_error(cluster_data) = "none"
    /\ \E outcome \in AlertOutcomes :
        /\ calls' = Append(calls, alerts_prompt(cluster_data))
        /\ alerts_outcome' = outcome
        /\ result' = Return(success_result(extract_alerts(outcome), summarized_clusters))
    /\ pc' = "done"
    /\ UNCHANGED <<env, origin, disable_ai, cluster_data, enabled, constructions, responses,
                   summarized_clusters, fail_stage, sc_args, sc_result, g_args, g_out>>

\* lines 185-227: the loop is over, the insight request is built and sent
Insight ==
    /\ pc = "loop"
    /\ NextIndex > Len(cluster_data)
    /\ alerts_prompt_error(cluster_data) = "none"
    /\ \E outcome \in AlertOutcomes :
        /\ calls' = Append(calls, alerts_prompt(cluster_data))
        /\ alerts_outcome' = outcome
        /\ result' = Return(success_result(extract_alerts(outcome), summarized_clusters))
    /\ pc' = "done"
    /\ UNCHANGED <<env, origin, disable_ai, cluster_data, enabled, constructions, responses,
                   summarized_clusters, fail_stage, sc_args, sc_result, g_args, g_out>>

\* lines 186-190 raise while the insight request is built: the except of
\* line 229 takes it
InsightBuildRaises ==
    /\ pc = "loop"
    /\ NextIndex > Len(cluster_data)
    /\ alerts_prompt_error(cluster_data) # "none"
    /\ fail_stage' = "insight"
    /\ result' = failure_result(cluster_data, alerts_prompt_error(cluster_data))
    /\ pc' = "done"
    /\ UNCHANGED <<env, origin, disable_ai, cluster_data, enabled, constructions, calls, responses,
                   alerts_outcome, summarized_clusters, sc_args, sc_result, g_args, g_out>>

\* the call is over; the caller may start the next run
Finish ==
    /\ pc = "done"
    /\ pc' = "idle"
    /\ origin' = "none"
    /\ disable_ai' = FALSE
    /\ cluster_data' = <<>>
    /\ enabled' = FALSE
    /\ constructions' = 0
    /\ calls' = <<>>
    /\ responses' = <<>>
    /\ alerts_outcome' = NoCall
    /\ summarized_clusters' = <<>>
    /\ fail_stage' = "none"
    /\ result' = NotCalled
    /\ g_args' = NoGroup
    /\ g_out' = NoGroupOut
    /\ UNCHANGED <<env, sc_args, sc_result>>

Next ==
    \/ CallDirect
    \/ RunAnalysis
    \/ SetEnv
    \/ EnterDisabled
    \/ EnterEnabled
    \/ ConstructModel
    \/ ConstructModelFails
    \/ SummarizeNext
    \/ SummarizeNextRaises
    \/ Insight
    \/ InsightBuildRaises
    \/ Finish

Spec == Init /\ [][Next]_vars

-----------------------------------------------------------------------------
(* Claims *)

sc_called == sc_result # NotCalled

\* the deterministic templates, written out for (id, count)
TemplateRecord(id, count) ==
    [cluster |-> JStr(S_Cluster \o IntStr(id)),
     summary |-> JStr(S_Cluster \o IntStr(id) \o S_contains \o IntStr(count) \o S_varied),
     problem |-> JStr(S_General),
     solution |-> JStr(S_Review),
     ai_summarized |-> FALSE]

\* length of s between its first and its last character that is no whitespace
CoreLen(s) ==
    LET solid == { i \in 1..Len(s) : s[i] \notin Whitespace } IN
    IF solid = {} THEN 0
    ELSE (CHOOSE i \in solid : \A j \in solid : j <= i)
         - (CHOOSE i \in solid : \A j \in solid : i <= j) + 1

ParsesToObject(o) == o.t = "text" /\ o.v.t = "obj"
HasTextSummary(o) ==
    ParsesToObject(o) /\ "summary" \in DOMAIN o.v.v /\ o.v.v["summary"].t = "str"
ValidSummary(o) == HasTextSummary(o) /\ CoreLen(o.v.v["summary"].v) >= 20

\* C1: summarize_cluster never raises, whatever the provider does (raises,
\* times out, returns arbitrary text), for any cluster (an id and a list of
\* lines); and when the provider call fails the record is exactly the
\* template record with ai_summarized = false.
C1_FallbackTotality ==
    (sc_called /\ IsLineList(sc_args.logs)) =>
        /\ sc_result.exc = "none"
        /\ sc_args.outcome = ProviderError =>
              sc_result.val = TemplateRecord(sc_args.cluster_id.v, Len(sc_args.logs.v))

C1_Witness ==
    /\ sc_called
    /\ sc_args.outcome = ProviderError
    /\ IsLineList(sc_args.logs) /\ Len(sc_args.logs.v) = 4
    /\ sc_args.cluster_id = JNum(-1)
    /\ sc_result.exc = "none" /\ sc_result.val.ai_summarized = FALSE

\* C2: a response is rejected (fallback record, ai_summarized = false) when
\* it does not parse as JSON, or the parsed object has no summary, or the
\* summary stripped of surrounding whitespace is empty or shorter than 20
\* characters; a response whose stripped summary has 20 or more characters
\* is never rejected.
C2_ValidationPolicy ==
    (sc_called /\ IsLineList(sc_args.logs) /\ sc_args.outcome.t = "text") =>
        LET o == sc_args.outcome
            rejected == sc_result.val =
                          TemplateRecord(sc_args.cluster_id.v, Len(sc_args.logs.v))
        IN /\ sc_result.exc = "none"
           /\ o = Garbage => rejected
           /\ (ParsesToObject(o) /\ "summary" \notin DOMAIN o.v.v) => rejected
           /\ (HasTextSummary(o) /\ CoreLen(o.v.v["summary"].v) < 20) => rejected
           /\ ValidSummary(o) => (~rejected /\ sc_result.val.ai_summarized = TRUE)

C2_Witness ==
    /\ sc_called
    /\ sc_args.outcome = Text(JObj([summary |-> JStr(S_ok)]))
    /\ IsLineList(sc_args.logs)
    /\ sc_result.exc = "none" /\ sc_result.val.ai_summarized = FALSE

NamedDefault(k, id) == CASE k = "cluster" -> JStr(S_Cluster \o IntStr(id))
                         [] k = "problem" -> JStr(S_General)
                         [] k = "solution" -> JStr(S_Review)

\* C3: when the response parses to an object whose summary passes
\* validation, the record has ai_summarized = true, summary is the
\* response's, and cluster, problem and solution are each the response's
\* value when the key is present and the named default otherwise; a missing
\* key never causes rejection.
C3_IndependentDefaults ==
    (sc_called /\ IsLineList(sc_args.logs) /\ ValidSummary(sc_args.outcome)) =>
        LET parsed == sc_args.outcome.v.v IN
        /\ sc_result.exc = "none"
        /\ sc_result.val.ai_summarized = TRUE
        /\ sc_result.val.summary = parsed["summary"]
        /\ \A k \in OtherKeys :
              sc_result.val[k] = IF k \in DOMAIN parsed THEN parsed[k]
                                 ELSE NamedDefault(k, sc_args.cluster_id.v)

C3_Witness ==
    /\ sc_called
    /\ IsLineList(sc_args.logs)
    /\ ValidSummary(sc_args.outcome)
    /\ DOMAIN sc_args.outcome.v.v = {"summary", "cluster"}
    /\ sc_result.exc = "none"
    /\ sc_result.val.ai_summarized = TRUE
    /\ sc_result.val.cluster = JStr(S_title)
    /\ sc_result.val.problem = JStr(S_General)

\* a non-empty JSON array whose elements are all objects holding `keys`
IsAlertList(o, keys) ==
    /\ o.t = "text" /\ o.v.t = "arr" /\ Len(o.v.v) > 0
    /\ \A i \in 1..Len(o.v.v) : o.v.v[i].t = "obj" /\ keys \subseteq DOMAIN o.v.v[i].v

insight_called == pc = "done" /\ alerts_outcome # NoCall

\* C4 as stated: alerts is the provider's list if and only if the response
\* parses as a non-empty JSON array whose elements are all objects holding
\* log, explanation and suggestion; otherwise alerts is the sentinel, and
\* no exception reaches the caller.
C4_AsStated ==
    insight_called =>
        /\ result.exc = "none"
        /\ result.val.alerts =
              IF IsAlertList(alerts_outcome, {"log", "explanation", "suggestion"})
              THEN alerts_outcome.v ELSE JStr(S_NoAlerts)

\* C4 (amended): alerts is the provider's list if and only if the response
\* parses as a non-empty JSON array whose elements are all objects holding
\* log, explanation and suggestions (plural); otherwise alerts is exactly
\* the sentinel "No alerts identified", never a partial list, and no
\* exception of the insight call reaches the caller.
C4_InsightValidation ==
    insight_called =>
        /\ result.exc = "none"
        /\ result.val.alerts =
              IF IsAlertList(alerts_outcome, {"log", "explanation", "suggestions"})
              THEN alerts_outcome.v ELSE JStr(S_NoAlerts)

C4_Witness ==
    /\ insight_called
    /\ alerts_outcome = Text(JArr(<<GoodAlert>>))
    /\ result.exc = "none"
    /\ result.val.alerts = JArr(<<GoodAlert>>)

SwitchOff(value) == value \in {"true", "TRUE"}

\* C5: when AI enhancement is disabled at the time summarize_clusters reads
\* the switch, the run ends at once with no provider constructed and no
\* provider call made, and what it returns has the fallback record
\* (ai_summarized = false) for every cluster, in order, the sentinel as
\* alerts and ai_enhancement_used = false.
C5_DisabledBypass ==
    [][(pc = "entered" /\ pc' # "entered" /\ SwitchOff(env)) =>
          /\ pc' = "done"
          /\ constructions' = 0
          /\ calls' = <<>>
          /\ result'.exc = "none" =>
                /\ result'.val.alerts = JStr(S_NoAlerts)
                /\ result'.val.ai_enhancement_used = FALSE
                /\ Len(result'.val.clusters) = Len(cluster_data)
                /\ \A i \in 1..Len(cluster_data) :
                      LET r == result'.val.clusters[i]
                          t == TemplateRecord(cluster_data[i].v["cluster_id"].v,
                                              cluster_data[i].v["log_count"].v)
                      IN /\ r.cluster = t.cluster /\ r.summary = t.summary
                         /\ r.problem = t.problem /\ r.solution = t.solution
                         /\ r.ai_summarized = FALSE]_vars

C5_Witness ==
    /\ pc = "done"
    /\ ~enabled
    /\ origin = "direct"
    /\ result.exc = "none"
    /\ Len(result.val.clusters) = 2
    /\ constructions = 0 /\ calls = <<>>

\* C6: in a run with AI enabled, a failure while summarizing one cluster
\* (provider error, malformed response, or an error raised while preparing
\* that cluster's request) never aborts the loop (every cluster whose own
\* request can be prepared gets its provider call), and every cluster whose
\* own provider response is valid is returned with ai_summarized = true and
\* the model's summary.
C6_ClusterIsolation ==
    (pc = "done" /\ enabled /\ fail_stage # "construct") =>
        /\ Len(responses) =
              Cardinality({ j \in 1..Len(cluster_data) : loop_error(cluster_data[j]) = "none" })
        /\ result.exc = "none" =>
              \A j \in 1..Len(responses) :
                  ValidSummary(responses[j]) =>
                      /\ result.val.clusters[j].ai_summarized = TRUE
                      /\ result.val.clusters[j].summary = responses[j].v.v["summary"]

\* C7: in a run with AI enabled, once the per-cluster loop is over, any
\* failure of the insight step (provider error, malformed response, or an
\* error raised while the combined request is built) leaves the loop's
\* records as the returned clusters, and the call returns instead of raising.
C7_InsightIsolation ==
    (pc = "done" /\ enabled /\ fail_stage \notin {"construct", "loop"}) =>
        /\ result.exc = "none"
        /\ result.val.clusters = summarized_clusters

g_called == g_args # NoGroup

RECURSIVE SumSizes(_, _)
SumSizes(f, S) ==
    IF S = {} THEN 0
    ELSE LET x == CHOOSE y \in S : TRUE IN Len(f[x]) + SumSizes(f, S \ {x})

\* C8: for all inputs (lines, labels) of group_logs_by_cluster, every line
\* index is a member of exactly one output cluster and the cluster sizes add
\* up to len(lines).
C8_PartitionComplete ==
    g_called =>
        /\ SumSizes(g_out.clustered, DOMAIN g_out.clustered) = Len(g_args.logs)
        /\ \A i \in 1..Len(g_args.logs) :
              Cardinality({ p \in { <<l, k>> : l \in DOMAIN g_out.indices,
                                               k \in 1..(MaxLines + 2) } :
                              p[2] <= Len(g_out.indices[p[1]])
                              /\ g_out.indices[p[1]][p[2]] = i }) = 1

ExportIds(list) == [k \in 1..Len(list) |-> list[k].v["cluster_id"].v]

\* the positions of the lines that carry label -1
NoisePositions ==
    { i \in 1..Min(Len(g_args.logs), Len(g_args.labels)) : g_args.labels[i] = -1 }

RECURSIVE PickLines(_, _, _)
PickLines(logs, S, i) ==
    IF i > Len(logs) THEN <<>>
    ELSE (IF i \in S THEN <<logs[i]>> ELSE <<>>) \o PickLines(logs, S, i + 1)

\* C9 as stated: grouping and export always hold a record for id -1 (empty,
\* with count 0, when no line carries label -1), and lines labelled -1 are
\* never dropped.
C9_AsStated ==
    g_called =>
        /\ -1 \in DOMAIN g_out.clustered
        /\ \E k \in 1..Len(g_out.export) :
              /\ g_out.export[k].v["cluster_id"] = JNum(-1)
              /\ g_out.export[k].v["logs"] = JArr(PickLines(g_args.logs, NoisePositions, 1))
              /\ g_out.export[k].v["log_count"] = JNum(Cardinality(NoisePositions))

\* C9 (amended): lines labelled -1 are never dropped: when at least one line
\* carries label -1, grouping and export hold exactly one record for id -1,
\* whose members are those lines in input order and whose count is their
\* number; when no line carries label -1 there is no record for id -1.
C9_NoiseKept ==
    g_called =>
        LET noise == { k \in 1..Len(g_out.export) :
                          g_out.export[k].v["cluster_id"] = JNum(-1) }
        IN IF NoisePositions # {}
           THEN /\ -1 \in DOMAIN g_out.clustered
                /\ g_out.clustered[-1] = PickLines(g_args.logs, NoisePositions, 1)
                /\ Cardinality(noise) = 1
                /\ \A k \in noise :
                      /\ g_out.export[k].v["logs"] =
                            JArr(PickLines(g_args.logs, NoisePositions, 1))
                      /\ g_out.export[k].v["log_count"] = JNum(Cardinality(NoisePositions))
           ELSE -1 \notin DOMAIN g_out.clustered /\ noise = {}

C9_Witness ==
    /\ g_called
    /\ Cardinality(NoisePositions) = 1
    /\ Len(g_out.export) = 2
    /\ g_out.export[1].v["cluster_id"] = JNum(-1)
    /\ g_out.export[1].v["log_count"] = JNum(1)

StrictlyAscending(ids) == \A k \in 1..(Len(ids) - 1) : ids[k] < ids[k + 1]

\* C10: the cluster sequence built by the export, and by run_analysis before
\* summarization, is strictly ascending in cluster id (each id once, noise
\* -1 first when present); summarize_clusters returns one record per input
\* entry in the input order on every return path; so the clusters of a
\* run_analysis result are in ascending-id order.
C10_OrderPreserved ==
    /\ origin = "run_analysis" =>
          /\ StrictlyAscending(ExportIds(g_out.export))
          /\ StrictlyAscending(ExportIds(cluster_data))
          /\ { ExportIds(cluster_data)[k] : k \in 1..Len(cluster_data) }
                = DOMAIN g_out.clustered
          /\ -1 \in DOMAIN g_out.clustered =>
                ExportIds(g_out.export)[1] = -1 /\ ExportIds(cluster_data)[1] = -1
    /\ (pc = "done" /\ result.exc = "none") =>
          /\ Len(result.val.clusters) = Len(cluster_data)
          /\ \A k \in 1..Len(cluster_data) :
                /\ result.val.clusters[k].cluster_id = cluster_data[k].v["cluster_id"]
                /\ result.val.clusters[k].original_logs = cluster_data[k].v["logs"]
          /\ origin = "run_analysis" =>
                StrictlyAscending([k \in 1..Len(cluster_data) |->
                                      result.val.clusters[k].cluster_id.v])

C10_Witness ==
    /\ pc = "done" /\ result.exc = "none"
    /\ origin = "run_analysis"
    /\ enabled
    /\ Len(result.val.clusters) = 2
    /\ result.val.clusters[1].cluster_id = JNum(-1)
    /\ result.val.clusters[2].ai_summarized = TRUE

-----------------------------------------------------------------------------

construct_failed == pc = "done" /\ fail_stage = "construct"

HasEntryKeys(data) == \A i \in 1..Len(data) : EntryKeys \subseteq DOMAIN data[i].v

\* C11 as stated: when the construction of the provider fails in a run with
\* AI enabled, the initialization error is not caught and leaves
\* summarize_clusters for the caller.
C11_AsStated ==
    construct_failed => result.exc = "Exception"

\* C11: when the construction of the provider fails in a run with AI
\* enabled, the initialization error is caught by the outer handler of
\* summarize_clusters and never reaches the caller; no provider call is
\* made, and for entries holding cluster_id, log_count and logs the run
\* returns the whole-run fallback: one fallback record per entry in order,
\* the sentinel as alerts, ai_enhancement_used = false and the error text
\* as ai_error.
C11_ConstructionFailureCaught ==
    construct_failed =>
        /\ enabled /\ constructions = 1 /\ calls = <<>>
        /\ result.exc # "Exception"
        /\ HasEntryKeys(cluster_data) =>
              /\ result.exc = "none"
              /\ result.val.ai_enhancement_used = FALSE
              /\ result.val.ai_error = "Exception"
              /\ result.val.alerts = NoAlerts
              /\ Len(result.val.clusters) = Len(cluster_data)
              /\ \A k \in 1..Len(cluster_data) :
                    result.val.clusters[k].ai_summarized = FALSE

C11_Witness ==
    /\ construct_failed
    /\ result.exc = "none"
    /\ Len(result.val.clusters) = 2
    /\ result.val.ai_error = "Exception"

\* C12: when the label sequence and the line sequence handed to
\* group_logs_by_cluster differ in length, the call ends with an error; it
\* never yields a grouping that leaves out lines or labels.
C12_MismatchAborts ==
    (g_called /\ Len(g_args.logs) # Len(g_args.labels)) => g_out.exc # "none"

\* C13 as stated: with AI disabled, summarize_cluster called directly never
\* calls the provider and always returns a record with ai_summarized =
\* false.
C13_AsStated ==
    (sc_called /\ SwitchOff(env) /\ IsLineList(sc_args.logs)) =>
        /\ sc_args.prompts = <<>>
        /\ sc_result.exc = "none"
        /\ sc_result.val.ai_summarized = FALSE

\* C14: the fallback record is the same function of (cluster_id, count) on
\* every path: in every record of a returned result that has ai_summarized =
\* false, the count written in the summary text is that record's log_count,
\* for any input entry, also one whose log_count is not len(logs).
C14_FallbackCount ==
    (pc = "done" /\ result.exc = "none") =>
        \A k \in 1..Len(result.val.clusters) :
            LET record == result.val.clusters[k] IN
            record.ai_summarized = FALSE =>
                record.summary =
                    TemplateRecord(record.cluster_id.v, record.log_count.v).summary

\* C15 as stated: a run with AI enabled over N clusters constructs the
\* provider exactly once and makes exactly N+1 provider calls, one per cluster
\* in input order and then one insight call.
C15_AsStated ==
    (pc = "done" /\ enabled) =>
        /\ constructions = 1
        /\ Len(calls) = Len(cluster_data) + 1
        /\ \A k \in 1..Len(cluster_data) : calls[k].kind = "cluster"
        /\ calls[Len(cluster_data) + 1].kind = "alerts"

\* C15: in a run with AI enabled over N clusters the provider is constructed
\* once, before any provider call; the calls are made one at a time, the
\* k-th call being the request for the k-th cluster and the insight request
\* coming last, after all N; a run that ends outside the outer handler has
\* made exactly N+1 calls, a run whose construction failed has made none,
\* and a run stopped while a request was being built has made only the
\* calls before it.
C15_CallOrder ==
    /\ constructions <= 1
    /\ calls # <<>> => (enabled /\ constructions = 1)
    /\ pc = "loop" => (constructions = 1 /\ Len(calls) = Len(summarized_clusters))
    /\ Len(calls) <= Len(cluster_data) + 1
    /\ Len(responses) = Min(Len(calls), Len(cluster_data))
    /\ \A k \in 1..Len(calls) :
          IF k <= Len(cluster_data)
          THEN calls[k] = cluster_prompt(loop_cluster_id(cluster_data[k]),
                                         loop_logs(cluster_data[k]))
          ELSE calls[k] = alerts_prompt(cluster_data)
    /\ (pc = "done" /\ enabled) =>
          /\ fail_stage = "none" =>
                Len(calls) = Len(cluster_data) + 1 /\ alerts_outcome # NoCall
          /\ fail_stage = "construct" => calls = <<>>
          /\ fail_stage = "loop" =>
                Len(calls) = Len(summarized_clusters) /\ Len(calls) < Len(cluster_data)
          /\ fail_stage = "insight" => Len(calls) = Len(cluster_data)

C15_Witness ==
    /\ pc = "done" /\ enabled /\ fail_stage = "none"
    /\ Len(cluster_data) = 2
    /\ Len(calls) = 3
    /\ calls[1].cluster_id # calls[2].cluster_id

after_read == pc \in {"construct", "loop"}

\* C16: a run reads the switch once, at its entry and before the provider
\* is constructed or called; the value read stays the run's value, and a
\* write to the switch after the read changes nothing in the run: every
\* later step constructs and calls the provider as if the switch had kept
\* the value read.
C16_SwitchReadOnce ==
    [][/\ pc = "entered" => (constructions = 0 /\ calls = <<>>)
       /\ enabled' # enabled => pc \in {"entered", "done"}
       /\ after_read => enabled
       /\ (after_read /\ env' # env) =>
             UNCHANGED <<pc, enabled, constructions, calls, responses, alerts_outcome,
                         summarized_clusters, fail_stage, result, cluster_data>>
       /\ (pc = "construct" /\ pc' # "construct") => constructions' = 1
       /\ (pc = "loop" /\ summarized_clusters' # summarized_clusters) =>
             /\ Len(calls') = Len(calls) + 1
             /\ Len(responses') = Len(responses) + 1
       /\ (pc = "loop" /\ pc' = "done" /\ fail_stage' = "none") =>
             /\ Len(calls') = Len(calls) + 1
             /\ result'.val.ai_enhancement_used = TRUE
      ]_vars

C16_Witness ==
    /\ pc = "done" /\ enabled /\ fail_stage = "none"
    /\ origin = "run_analysis" /\ disable_ai = FALSE
    /\ env = "true"
    /\ Len(calls) = 3
    /\ result.val.clusters[2].ai_summarized = TRUE

in_call == pc \in {"entered", "construct", "loop"}

\* C17: summarize_clusters never changes its argument: from its entry to
\* its return or raise, on every path (disabled, enabled, outer handler),
\* cluster_data keeps the same entries in the same order, each with the
\* same keys and the same cluster_id, log_count and logs.
C17_InputUnchanged ==
    [][in_call =>
          /\ Len(cluster_data') = Len(cluster_data)
          /\ \A k \in 1..Len(cluster_data) :
                /\ DOMAIN cluster_data'[k].v = DOMAIN cluster_data[k].v
                /\ \A key \in DOMAIN cluster_data[k].v :
                      cluster_data'[k].v[key] = cluster_data[k].v[key]
      ]_vars

C17_Witness ==
    /\ pc = "done" /\ enabled /\ result.exc = "none"
    /\ Len(cluster_data) = 2
    /\ result.val.clusters[1].ai_summarized = TRUE
    /\ result.val.clusters[1].cluster # ClusterTitle(cluster_data[1].v["cluster_id"])
    /\ DOMAIN cluster_data[1].v = EntryKeys

\* C18: a run_analysis started with disable_ai = true never constructs or
\* calls the provider, also when another run_analysis with disable_ai =
\* false runs in the same process at the same time.
C18_DisabledRunIsolated ==
    (origin = "run_analysis" /\ disable_ai) => (constructions = 0 /\ calls = <<>>)

TextKeys == {"cluster", "summary", "problem", "solution"}

\* C19: every record summarize_cluster returns has a string as cluster, as
\* summary, as problem and as solution, whatever JSON the provider
\* answered, also when cluster, problem or solution is null, a number, a
\* list or an object beside a valid summary.
C19_TextFields ==
    (sc_called /\ sc_result.exc = "none") =>
        \A key \in TextKeys : sc_result.val[key].t = "str"

\* C20: in every result summarize_clusters returns, ai_enhancement_used =
\* false implies that every record has ai_summarized = false and that alerts
\* is the sentinel; the key ollama_model_used is present exactly when
\* ai_enhancement_used = true; and ai_enhancement_used = true exactly when
\* the switch was read as enabled and the run ended outside the outer
\* handler, however many clusters fell back.
C20_ResultFlags ==
    (pc = "done" /\ result.exc = "none") =>
        LET r == result.val IN
        /\ r.ai_enhancement_used = FALSE =>
              /\ \A k \in 1..Len(r.clusters) : r.clusters[k].ai_summarized = FALSE
              /\ r.alerts = NoAlerts
        /\ ("ollama_model_used" \in DOMAIN r) = (r.ai_enhancement_used = TRUE)
        /\ r.ai_enhancement_used = TRUE => r.ollama_model_used = DEFAULT_MODEL
        /\ r.ai_enhancement_used = (enabled /\ fail_stage = "none")

C20_Witness ==
    /\ pc = "done" /\ result.exc = "none"
    /\ result.val.ai_enhancement_used = TRUE
    /\ Len(result.val.clusters) = 2
    /\ \A k \in 1..2 : result.val.clusters[k].ai_summarized = FALSE
    /\ result.val.alerts = NoAlerts

====
